---- MODULE Spec2Model ----
(***************************************************************************)
(* The Plane cache scripts of plugins/plane/scripts: one JSON document on  *)
(* disk (project, states, issues, linked, lastSync) and the command line   *)
(* entry points that load it, change it and write it back.                 *)
(*                                                                         *)
(*   sync_cache.py  sync_cache / touch_cache   (Reconciler)                *)
(*   add_issue.py   add_issue                  (upsertIssue)               *)
(*   add_link.py    add_link / remove_link     (LinkManager)               *)
(*                                                                         *)
(* Python values are modelled as follows.  A dict whose keys are optional  *)
(* is a function whose DOMAIN holds the keys that are present.  None is    *)
(* the string "null" (its JSON form); no input string equals it.  A field  *)
(* that may hold either an object or a scalar (an issue's state and        *)
(* priority in a snapshot) is tagged: [dict |-> d] or [scalar |-> s].      *)
(* The `linked` dict keeps its insertion order, as a sequence of <<key,    *)
(* value>> pairs, because add_link scans it with an early return; issues   *)
(* and states are only looked up by key and are functions.                 *)
(***************************************************************************)
EXTENDS Integers, Sequences, FiniteSets, TLC

VARIABLES
    disk,   \* the cache file: [exists |-> BOOLEAN, text |-> document]
    now,    \* the UTC clock read by datetime.now
    last,   \* the last invocation: its entry point, arguments, result, and the file before it
    ops,    \* number of invocations so far
    procs   \* SpecRace: per process, the invocation between its load and its save

vars == <<disk, now, last, ops, procs>>

-----------------------------------------------------------------------------
(* Bounds *)

MaxClock == 1     \* the clock runs from 0 to MaxClock
MaxOps == 2       \* invocations in a run of SpecSync
MaxStates == 3    \* longest state list of a snapshot in SpecStates
MaxRaceOps == 3   \* invocations in a run of SpecRace

-----------------------------------------------------------------------------
(* Python values *)

None == "null"

EmptyDict == [k \in {} |-> None]

Get(d, k, default) == IF k \in DOMAIN d THEN d[k] ELSE default

Put(d, k, v) == [x \in DOMAIN d \cup {k} |-> IF x = k THEN v ELSE d[x]]

Truthy(v) == v # None /\ v # ""

PyStr(v) == IF v = None THEN "None" ELSE v

Obj(d) == [dict |-> d]

Scalar(s) == [scalar |-> s]

IsDict(v) == "dict" \in DOMAIN v

UpperCase == "ABCDEFGHIJKLMNOPQRSTUVWXYZ"

LowerCase == "abcdefghijklmnopqrstuvwxyz"

UpperChars == {SubSeq(UpperCase, i, i) : i \in 1..Len(UpperCase)}

LowerOf ==
    [c \in UpperChars |->
        LET i == CHOOSE j \in 1..Len(UpperCase) : SubSeq(UpperCase, j, j) = c
        IN  SubSeq(LowerCase, i, i)]

CharLower(c) == IF c \in UpperChars THEN LowerOf[c] ELSE c

RECURSIVE StrLower(_)
StrLower(s) ==
    IF Len(s) = 0 THEN ""
    ELSE CharLower(SubSeq(s, 1, 1)) \o StrLower(SubSeq(s, 2, Len(s)))

RECURSIVE StrReplaceChar(_, _, _)
StrReplaceChar(s, old, new) ==
    IF Len(s) = 0 THEN ""
    ELSE (IF SubSeq(s, 1, 1) = old THEN new ELSE SubSeq(s, 1, 1))
         \o StrReplaceChar(SubSeq(s, 2, Len(s)), old, new)

(* An insertion-ordered dict: a sequence of <<key, value>> pairs. *)
DictKeys(d) == {d[i][1] : i \in DOMAIN d}

DictValues(d) == {d[i][2] : i \in DOMAIN d}

DictHas(d, k) == k \in DictKeys(d)

DictGet(d, k, default) ==
    IF DictHas(d, k)
    THEN d[CHOOSE i \in DOMAIN d : d[i][1] = k][2]
    ELSE default

(* Variants of the dict updates: the key moves to the end; every key goes. *)
DictSet_reinsert(d, k, v) == Append(SelectSeq(d, LAMBDA e : e[1] # k), <<k, v>>)

DictPop_clear(d, k) == <<>>

DictSet(d, k, v) ==
    IF DictHas(d, k)
    THEN [i \in DOMAIN d |-> IF d[i][1] = k THEN <<k, v>> ELSE d[i]]
    ELSE Append(d, <<k, v>>)

DictPop(d, k) == SelectSeq(d, LAMBDA e : e[1] # k)

(* datetime.now(timezone.utc).isoformat().replace("+00:00", "Z") *)
IsoFormat(t) == ToString(t) \o "+00:00"

UtcNow(t) ==
    LET s == IsoFormat(t)
        n == Len(s) - Len("+00:00")
    IN  IF n >= 0 /\ SubSeq(s, n + 1, Len(s)) = "+00:00"
        THEN SubSeq(s, 1, n) \o "Z"
        ELSE s

-----------------------------------------------------------------------------
(* The cache file *)

EmptyCache ==
    [project |-> EmptyDict, states |-> EmptyDict, issues |-> EmptyDict,
     linked |-> <<>>, lastSync |-> None]

NoFile == [exists |-> FALSE, text |-> EmptyCache]

load_cache(d) == IF d.exists THEN d.text ELSE EmptyCache

save_cache(cache) == [exists |-> TRUE, text |-> cache]


-----------------------------------------------------------------------------
(* add_link.py *)

(* Variants of the checks of add_link, each with one check weakened. *)
issue_known_always(cache, issue_key) == TRUE

link_conflict_never(existing, task_file) == FALSE

task_owner_never(linked, task_file, issue_key) == 0

task_owner_first(linked, task_file, issue_key) ==
    IF linked # <<>> /\ linked[1][2] = task_file /\ linked[1][1] # issue_key
    THEN 1
    ELSE 0

(* Line 46: the issue must be in the cache. *)
issue_known(cache, issue_key) == issue_key \in DOMAIN cache.issues

(* Line 54: the issue already has another task. *)
link_conflict(existing, task_file) == Truthy(existing) /\ existing # task_file

(* Lines 61-62: the position of the first link of task_file to another issue, *)
(* 0 when the scan ends without one.                                          *)
task_owner(linked, task_file, issue_key) ==
    LET hit(i) == linked[i][2] = task_file /\ linked[i][1] # issue_key
    IN  IF \E i \in DOMAIN linked : hit(i)
        THEN CHOOSE i \in DOMAIN linked : hit(i) /\ \A h \in 1..(i - 1) : ~hit(h)
        ELSE 0

(* Lines 41-79.  The arrow of the `linked` message is written <-> here. *)
add_link(d, issue_key, task_file) ==
    LET cache == load_cache(d)
        existing == DictGet(cache.linked, issue_key, None)
        owner == task_owner(cache.linked, task_file, issue_key)
    IN  IF ~issue_known(cache, issue_key)
        THEN [disk |-> d,
              result |-> [success |-> FALSE,
                          error |-> "Issue " \o issue_key
                                    \o " not found in cache. Run plane-sync first."]]
        ELSE IF link_conflict(existing, task_file)
        THEN [disk |-> d,
              result |-> [success |-> FALSE,
                          error |-> "Issue " \o issue_key \o " already linked to "
                                    \o existing \o ". Use --remove first."]]
        ELSE IF owner # 0
        THEN [disk |-> d,
              result |-> [success |-> FALSE,
                          error |-> "Task " \o task_file \o " already linked to "
                                    \o cache.linked[owner][1] \o "."]]
        ELSE LET saved == [cache EXCEPT !.linked = DictSet(@, issue_key, task_file)]
             IN  [disk |-> save_cache(saved),
                  result |-> [success |-> TRUE,
                              linked |-> issue_key \o " <-> " \o task_file,
                              issue_name |-> Get(Get(saved.issues, issue_key, EmptyDict),
                                                 "name", "")]]

(* Variant of remove_link: the unlink also clears the sync timestamp. *)
remove_link_unsynced(d, issue_key) ==
    LET cache == load_cache(d)
    IN  IF ~DictHas(cache.linked, issue_key)
        THEN [disk |-> d,
              result |-> [success |-> FALSE,
                          error |-> "Issue " \o issue_key \o " is not linked to any task."]]
        ELSE [disk |-> save_cache([cache EXCEPT !.linked = DictPop(@, issue_key),
                                                !.lastSync = None]),
              result |-> [success |-> TRUE,
                          unlinked |-> issue_key,
                          was_linked_to |-> DictGet(cache.linked, issue_key, None)]]

(* Lines 82-99 *)
remove_link(d, issue_key) ==
    LET cache == load_cache(d)
    IN  IF ~DictHas(cache.linked, issue_key)
        THEN [disk |-> d,
              result |-> [success |-> FALSE,
                          error |-> "Issue " \o issue_key \o " is not linked to any task."]]
        ELSE [disk |-> save_cache([cache EXCEPT !.linked = DictPop(@, issue_key)]),
              result |-> [success |-> TRUE,
                          unlinked |-> issue_key,
                          was_linked_to |-> DictGet(cache.linked, issue_key, None)]]

(* main of add_link.py: --issue, --task (None when not given), --remove *)
add_link_main(d, issue, task, remove) ==
    IF remove THEN remove_link(d, issue)
    ELSE IF Truthy(task) THEN add_link(d, issue, task)
    ELSE [disk |-> d,
          result |-> [success |-> FALSE,
                      error |-> "Provide --task to link or --remove to unlink"]]

-----------------------------------------------------------------------------
(* sync_cache.py *)

map_state_group_to_status(group) ==
    LET mapping == [backlog |-> "backlog", unstarted |-> "pending",
                    started |-> "in_progress", completed |-> "completed",
                    cancelled |-> "cancelled"]
    IN  Get(mapping, group, group)

(* Variant of get_state_name: the name of some listed state, whatever its id. *)
get_state_name_any(state_id, states_by_id) ==
    Get(states_by_id[CHOOSE id \in DOMAIN states_by_id : TRUE], "name", "Unknown")

(* Lines 63-66 *)
get_state_name(state_id, states_by_id) ==
    Get(Get(states_by_id, state_id, EmptyDict), "name", "Unknown")

(* Line 96: state["name"].lower().replace(" ", "_"); computed once for the *)
(* names of the state pool.                                                *)
NormalizedNames ==
    [name \in {"Todo", "In Progress", "In Review", "Doing", "READY TO MERGE"} |->
        StrReplaceChar(StrLower(name), " ", "_")]

normalize_name(name) ==
    IF name \in DOMAIN NormalizedNames THEN NormalizedNames[name]
    ELSE StrReplaceChar(StrLower(name), " ", "_")

(* Variant of record_state: a special state also takes its group's free slot. *)
record_state_fill(states, name_lower, status_key, state_id) ==
    LET named == IF name_lower \in {"in_review", "ready_to_merge"}
                 THEN Put(states, name_lower, state_id)
                 ELSE states
    IN  IF status_key \notin DOMAIN named THEN Put(named, status_key, state_id)
        ELSE named

(* Variant of record_state: the latest state of a group takes its slot. *)
record_state_last(states, name_lower, status_key, state_id) ==
    IF name_lower \in {"in_review", "ready_to_merge"}
    THEN Put(states, name_lower, state_id)
    ELSE Put(states, status_key, state_id)

(* Lines 97-100: where one state is recorded in cache["states"]. *)
record_state(states, name_lower, status_key, state_id) ==
    IF name_lower \in {"in_review", "ready_to_merge"}
    THEN Put(states, name_lower, state_id)
    ELSE IF status_key \notin DOMAIN states
    THEN Put(states, status_key, state_id)
    ELSE states

(* Lines 88-100: the loop over data["states"].  raised: a KeyError left the loop. *)
RECURSIVE sync_states(_, _, _)
sync_states(list, states, states_by_id) ==
    IF list = <<>>
    THEN [states |-> states, states_by_id |-> states_by_id, raised |-> FALSE]
    ELSE LET state == Head(list)
         IN  IF "id" \notin DOMAIN state \/ "name" \notin DOMAIN state
             THEN [states |-> states, states_by_id |-> states_by_id, raised |-> TRUE]
             ELSE LET group == Get(state, "group", "")
                      status_key == map_state_group_to_status(group)
                      name_lower == normalize_name(state.name)
                      states2 == record_state(states, name_lower, status_key, state.id)
                  IN  sync_states(Tail(list), states2, Put(states_by_id, state.id, state))

(* Lines 108-118: the record built for one snapshot issue. *)
issue_state_id(issue) ==
    IF "state" \notin DOMAIN issue THEN None
    ELSE IF IsDict(issue.state) THEN Get(issue.state.dict, "id", None)
    ELSE issue.state.scalar

issue_priority(issue) ==
    IF "priority" \notin DOMAIN issue THEN "none"
    ELSE IF IsDict(issue.priority) THEN Get(issue.priority.dict, "id", "none")
    ELSE issue.priority.scalar

issue_record(issue, states_by_id) ==
    LET state_id == issue_state_id(issue)
    IN  [id |-> issue.id,
         name |-> issue.name,
         state |-> IF DOMAIN states_by_id # {}
                   THEN get_state_name(state_id, states_by_id)
                   ELSE "Unknown",
         state_id |-> state_id,
         priority |-> issue_priority(issue),
         updated_at |-> Get(issue, "updated_at", None)]

(* Variant of classify: the whole record is compared, not the timestamp. *)
classify_by_record(issues, issue_key, issue_data) ==
    IF issue_key \notin DOMAIN issues THEN "new"
    ELSE IF issues[issue_key] # issue_data THEN "updated"
    ELSE "unchanged"

(* Lines 120-123: new, updated or neither, against the cache as it stands. *)
classify(issues, issue_key, issue_data) ==
    IF issue_key \notin DOMAIN issues THEN "new"
    ELSE IF Get(issues[issue_key], "updated_at", None) # issue_data.updated_at
    THEN "updated"
    ELSE "unchanged"

(* Line 107: the key of a snapshot issue. *)
make_issue_key(identifier, sequence_id) ==
    PyStr(identifier) \o "-" \o ToString(sequence_id)

(* Variant of store_issue: the issue collection is rebuilt from the entry. *)
store_issue_only(issues, issue_key, issue_data) == Put(EmptyDict, issue_key, issue_data)

(* Line 125: cache["issues"][issue_key] = issue_data; every other key stays. *)
store_issue(issues, issue_key, issue_data) == Put(issues, issue_key, issue_data)

(* Lines 106-125: the loop over data["issues"]. *)
RECURSIVE sync_issues(_, _, _, _, _, _)
sync_issues(list, identifier, states_by_id, issues, new_issues, updated_issues) ==
    IF list = <<>>
    THEN [issues |-> issues, new |-> new_issues, updated |-> updated_issues,
          raised |-> FALSE]
    ELSE LET issue == Head(list)
         IN  IF {"sequence_id", "id", "name"} \ DOMAIN issue # {}
             THEN [issues |-> issues, new |-> new_issues, updated |-> updated_issues,
                   raised |-> TRUE]
             ELSE LET issue_key == make_issue_key(identifier, issue.sequence_id)
                      issue_data == issue_record(issue, states_by_id)
                      class == classify(issues, issue_key, issue_data)
                  IN  sync_issues(Tail(list), identifier, states_by_id,
                                  store_issue(issues, issue_key, issue_data),
                                  IF class = "new" THEN Append(new_issues, issue_key)
                                  ELSE new_issues,
                                  IF class = "updated"
                                  THEN Append(updated_issues, issue_key)
                                  ELSE updated_issues)

KeyError == [raised |-> "KeyError"]

(* Lines 77-84: the project record after the snapshot's descriptor, if any. *)
sync_project(data, cache) ==
    IF "project" \in DOMAIN data
    THEN LET proj == data.project
         IN  [id |-> Get(proj, "id", None),
              identifier |-> Get(proj, "identifier", None),
              name |-> Get(proj, "name", None),
              workspace |-> Get(proj, "workspace", Get(cache.project, "workspace", None))]
    ELSE cache.project

(* Variant of sync_identifier: the identifier as cached before the update. *)
sync_identifier_stale(data, cache, project) == Get(cache.project, "identifier", "PROJ")

(* Line 104: the identifier of the issue keys, read after the project update. *)
sync_identifier(data, cache, project) == Get(project, "identifier", "PROJ")

(* Variant of sync_stamp: the timestamp moves only with a payload. *)
sync_stamp_payload(data, cache, t) ==
    IF DOMAIN data \cap {"project", "states", "issues"} = {}
    THEN cache.lastSync
    ELSE UtcNow(t)

(* Line 128: the timestamp of the call, whatever the snapshot carries. *)
sync_stamp(data, cache, t) == UtcNow(t)

(* Variant of sync_cache: what was processed before the exception is saved. *)
sync_cache_partial(data, d, t) ==
    LET cache == load_cache(d)
        project == sync_project(data, cache)
        st == IF "states" \in DOMAIN data
              THEN sync_states(data.states, cache.states, EmptyDict)
              ELSE [states |-> cache.states, states_by_id |-> EmptyDict, raised |-> FALSE]
        identifier == sync_identifier(data, cache, project)
        iss == IF "issues" \in DOMAIN data /\ ~st.raised
               THEN sync_issues(data.issues, identifier, st.states_by_id,
                                cache.issues, <<>>, <<>>)
               ELSE [issues |-> cache.issues, new |-> <<>>, updated |-> <<>>,
                     raised |-> FALSE]
        saved == [project |-> project, states |-> st.states, issues |-> iss.issues,
                  linked |-> cache.linked, lastSync |-> sync_stamp(data, cache, t)]
    IN  IF st.raised \/ iss.raised
        THEN [disk |-> save_cache(saved), result |-> KeyError]
        ELSE [disk |-> save_cache(saved),
              result |-> [success |-> TRUE,
                          issues_count |-> Cardinality(DOMAIN saved.issues),
                          states_count |-> Cardinality(DOMAIN saved.states),
                          new |-> iss.new,
                          updated |-> iss.updated]]

(* Lines 69-138: load, update in memory, save; an exception leaves before *)
(* the save.                                                              *)
sync_cache(data, d, t) ==
    LET cache == load_cache(d)
        project == sync_project(data, cache)
        st == IF "states" \in DOMAIN data
              THEN sync_states(data.states, cache.states, EmptyDict)
              ELSE [states |-> cache.states, states_by_id |-> EmptyDict, raised |-> FALSE]
        identifier == sync_identifier(data, cache, project)
        iss == IF "issues" \in DOMAIN data
               THEN sync_issues(data.issues, identifier, st.states_by_id,
                                cache.issues, <<>>, <<>>)
               ELSE [issues |-> cache.issues, new |-> <<>>, updated |-> <<>>,
                     raised |-> FALSE]
        saved == [project |-> project, states |-> st.states, issues |-> iss.issues,
                  linked |-> cache.linked, lastSync |-> sync_stamp(data, cache, t)]
    IN  IF st.raised \/ iss.raised
        THEN [disk |-> d, result |-> KeyError]
        ELSE [disk |-> save_cache(saved),
              result |-> [success |-> TRUE,
                          issues_count |-> Cardinality(DOMAIN saved.issues),
                          states_count |-> Cardinality(DOMAIN saved.states),
                          new |-> iss.new,
                          updated |-> iss.updated]]

(* Variant of touch_cache: the heartbeat is written to a fresh document. *)
touch_cache_fresh(d, t) ==
    LET saved == [EmptyCache EXCEPT !.lastSync = UtcNow(t)]
    IN  [disk |-> save_cache(saved),
         result |-> [success |-> TRUE,
                     issues_count |-> Cardinality(DOMAIN saved.issues),
                     touched |-> TRUE]]

(* Lines 141-150: the timestamp alone is refreshed. *)
touch_cache(d, t) ==
    LET cache == load_cache(d)
        saved == [cache EXCEPT !.lastSync = UtcNow(t)]
    IN  [disk |-> save_cache(saved),
         result |-> [success |-> TRUE,
                     issues_count |-> Cardinality(DOMAIN saved.issues),
                     touched |-> TRUE]]

-----------------------------------------------------------------------------
(* add_issue.py *)

(* Variant of issue_entry: fields the caller left out keep their old value. *)
issue_entry_merge(issues, key, issue_data, t) ==
    LET old == IF key \in DOMAIN issues THEN issues[key] ELSE EmptyDict
        keep(f, default) ==
            IF Get(issue_data, f, None) # None THEN issue_data[f]
            ELSE Get(old, f, default)
    IN  [id |-> keep("id", None),
         name |-> keep("name", None),
         state |-> keep("state", None),
         state_id |-> keep("state_id", None),
         priority |-> Get(issue_data, "priority", "none"),
         updated_at |-> Get(issue_data, "updated_at", UtcNow(t))]

(* Lines 52-59: the entry is built from the given fields alone. *)
issue_entry(issues, key, issue_data, t) ==
    [id |-> Get(issue_data, "id", None),
     name |-> Get(issue_data, "name", None),
     state |-> Get(issue_data, "state", None),
     state_id |-> Get(issue_data, "state_id", None),
     priority |-> Get(issue_data, "priority", "none"),
     updated_at |-> Get(issue_data, "updated_at", UtcNow(t))]

(* Lines 42-68 *)
add_issue(d, key, issue_data, t) ==
    LET cache == load_cache(d)
        action == IF key \in DOMAIN cache.issues THEN "updated" ELSE "added"
        entry == issue_entry(cache.issues, key, issue_data, t)
    IN  [disk |-> save_cache([cache EXCEPT !.issues = Put(@, key, entry)]),
         result |-> [success |-> TRUE, issue |-> key, action |-> action,
                     name |-> Get(issue_data, "name", None)]]

(* main of add_issue.py: the required-field check in front of add_issue *)
add_issue_main(d, key, issue_data, t) ==
    IF ~Truthy(Get(issue_data, "id", None)) \/ ~Truthy(Get(issue_data, "name", None))
    THEN [disk |-> d,
          result |-> [success |-> FALSE, error |-> "Missing required fields: id and name"]]
    ELSE add_issue(d, key, issue_data, t)

-----------------------------------------------------------------------------
(* discover.py and read_cache.py.  A task file is [name, text]; the tasks  *)
(* directory is [exists, files], files in the order glob lists them.       *)

(* The first position >= from where pat occurs in s, 0 when there is none. *)
StrFind(s, pat, from) ==
    LET at == {p \in from..(Len(s) - Len(pat) + 1) : SubSeq(s, p, p + Len(pat) - 1) = pat}
    IN  IF at = {} THEN 0 ELSE CHOOSE p \in at : \A q \in at : p <= q

(* str.split(sep) for a separator of one character. *)
RECURSIVE StrSplit(_, _)
StrSplit(s, sep) ==
    LET p == StrFind(s, sep, 1)
    IN  IF p = 0 THEN <<s>>
        ELSE <<SubSeq(s, 1, p - 1)>> \o StrSplit(SubSeq(s, p + 1, Len(s)), sep)

Whitespace == {" ", "\t", "\r", "\n"}

(* str.strip() *)
RECURSIVE StrStrip(_)
StrStrip(s) ==
    IF Len(s) = 0 THEN s
    ELSE IF SubSeq(s, 1, 1) \in Whitespace THEN StrStrip(SubSeq(s, 2, Len(s)))
    ELSE IF SubSeq(s, Len(s), Len(s)) \in Whitespace
    THEN StrStrip(SubSeq(s, 1, Len(s) - 1))
    ELSE s

EndsWith(s, suffix) ==
    Len(s) >= Len(suffix) /\ SubSeq(s, Len(s) - Len(suffix) + 1, Len(s)) = suffix

CACHE_FILE == ".claude/plane-sync.json"

(* Lines 27-31 of discover.py, 24-28 of read_cache.py: None without a file. *)
load_cache_or_none(d) ==
    IF d.exists THEN [found |-> TRUE, cache |-> d.text]
    ELSE [found |-> FALSE, cache |-> EmptyCache]

(* Lines 44-47: the key: value lines of the block, later lines winning. *)
RECURSIVE frontmatter_lines(_, _)
frontmatter_lines(lines, frontmatter) ==
    IF lines = <<>> THEN frontmatter
    ELSE LET line == Head(lines)
             p == StrFind(line, ":", 1)
         IN  frontmatter_lines(
                 Tail(lines),
                 IF p = 0 THEN frontmatter
                 ELSE Put(frontmatter,
                          StrStrip(SubSeq(line, 1, p - 1)),
                          StrStrip(SubSeq(line, p + 1, Len(line)))))

(* Lines 34-49: re.match(r'^---\n(.*?)\n---', content, re.DOTALL); matched *)
(* false stands for the None of line 41.                                   *)
parse_task_frontmatter(content) ==
    LET close == IF Len(content) >= 4 /\ SubSeq(content, 1, 4) = "---\n"
                 THEN StrFind(content, "\n---", 5)
                 ELSE 0
    IN  IF close = 0 THEN [matched |-> FALSE, fields |-> EmptyDict]
        ELSE [matched |-> TRUE,
              fields |-> frontmatter_lines(StrSplit(SubSeq(content, 5, close - 1), "\n"),
                                           EmptyDict)]

(* `if frontmatter:` -- neither None nor the empty dict. *)
FrontmatterTruthy(frontmatter) == frontmatter.matched /\ DOMAIN frontmatter.fields # {}

(* Lines 52-56 *)
get_task_files(tasks_dir) ==
    IF ~tasks_dir.exists THEN <<>>
    ELSE SelectSeq(tasks_dir.files, LAMBDA f : EndsWith(f.name, ".md"))

(* Lines 59-69 *)
StatusMapping ==
    [backlog |-> "Backlog", pending |-> "Todo", in_progress |-> "In Progress",
     completed |-> "Done", cancelled |-> "Cancelled"]
        @@ ("in-progress" :> "In Progress")

map_task_status_to_plane_state(status) ==
    Get(StatusMapping, StrLower(status), status)

(* The texts of the task files, and their frontmatter computed once. *)
tPending == "---\nstatus: Pending\nbranch: feature/x\n---\nbody"

tClaimsA == "---\nplane_issue: CCPRISM-1\nstatus: in-progress\n---\n"

tDangling == "---\nstatus: Unknown\nplane_issue: CCPRISM-9\n---"

tTodo == "---\nname: t\nstatus : todo \n---\n# Task"

tPlain == "# Task\nstatus: pending\n"

tNoFields == "---\n\n---\nstatus: pending\n"

tEmptyClaim == "---\nplane_issue:\nstatus: completed\n---\n"

TaskTexts == {tPending, tClaimsA, tDangling, tTodo, tPlain, tNoFields, tEmptyClaim}

Frontmatters == [content \in TaskTexts |-> parse_task_frontmatter(content)]

read_frontmatter(file) ==
    IF file.text \in DOMAIN Frontmatters THEN Frontmatters[file.text]
    ELSE parse_task_frontmatter(file.text)

(* Lines 83-89 of discover.py, 101-107 of read_cache.py *)
unlinked_issues_of(issues, linked) ==
    [key \in {k \in DOMAIN issues : ~DictHas(linked, k)} |->
        [name |-> Get(issues[key], "name", None),
         state |-> Get(issues[key], "state", None)]]

(* Variant of task_entry: the tag is given whenever an issue is declared. *)
task_entry_tag_any(task_name, fields, linked) ==
    LET plane_issue == Get(fields, "plane_issue", None)
    IN  IF Truthy(plane_issue)
        THEN <<[file |-> task_name, claims_issue |-> plane_issue,
                status |-> Get(fields, "status", None)]>>
        ELSE <<[file |-> task_name, status |-> Get(fields, "status", None)]>>

(* Lines 102-114: the entries, none or one, of a file with frontmatter. *)
task_entry(task_name, fields, linked) ==
    LET plane_issue == Get(fields, "plane_issue", None)
    IN  IF Truthy(plane_issue) /\ ~DictHas(linked, plane_issue)
        THEN <<[file |-> task_name, claims_issue |-> plane_issue,
                status |-> Get(fields, "status", None)]>>
        ELSE IF ~Truthy(plane_issue)
        THEN <<[file |-> task_name, status |-> Get(fields, "status", None)]>>
        ELSE <<>>

(* Lines 96-114: the loop over the task files. *)
RECURSIVE unlinked_tasks_of(_, _)
unlinked_tasks_of(task_files, linked) ==
    IF task_files = <<>> THEN <<>>
    ELSE LET task == Head(task_files)
             frontmatter == read_frontmatter(task)
         IN  (IF task.name \notin DictValues(linked) /\ FrontmatterTruthy(frontmatter)
              THEN task_entry(task.name, frontmatter.fields, linked)
              ELSE <<>>)
             \o unlinked_tasks_of(Tail(task_files), linked)

(* Line 121-123: tasks_dir / task_file, and whether it exists. *)
FilesNamed(tasks_dir, task_file) ==
    IF tasks_dir.exists THEN SelectSeq(tasks_dir.files, LAMBDA f : f.name = task_file)
    ELSE <<>>

(* Lines 119-139: the loop over the links; .lower() of a null state raises. *)
RECURSIVE status_mismatches_of(_, _, _, _)
status_mismatches_of(links, issues, tasks_dir, found) ==
    IF links = <<>> THEN [list |-> found, raised |-> FALSE]
    ELSE LET issue_key == Head(links)[1]
             task_file == Head(links)[2]
             files == FilesNamed(tasks_dir, task_file)
             frontmatter == read_frontmatter(files[1])
         IN  IF files = <<>> \/ ~FrontmatterTruthy(frontmatter)
             THEN status_mismatches_of(Tail(links), issues, tasks_dir, found)
             ELSE LET task_status == Get(frontmatter.fields, "status", "")
                      expected_state == map_task_status_to_plane_state(task_status)
                      actual_state == Get(Get(issues, issue_key, EmptyDict), "state", "")
                  IN  IF actual_state = None
                      THEN [list |-> found, raised |-> TRUE]
                      ELSE status_mismatches_of(
                               Tail(links), issues, tasks_dir,
                               IF StrLower(expected_state) # StrLower(actual_state)
                               THEN Append(found,
                                           [issue |-> issue_key, task |-> task_file,
                                            task_status |-> task_status,
                                            plane_state |-> actual_state,
                                            expected_state |-> expected_state])
                               ELSE found)

AttributeError == [raised |-> "AttributeError"]

CacheNotFound ==
    [error |-> "Cache not found at " \o CACHE_FILE \o ". Run plane-sync first."]

(* Lines 72-152 *)
discover(d, tasks_dir, check_status) ==
    LET loaded == load_cache_or_none(d)
        issues == loaded.cache.issues
        linked == loaded.cache.linked
        unlinked_issues == unlinked_issues_of(issues, linked)
        unlinked_tasks == unlinked_tasks_of(get_task_files(tasks_dir), linked)
        mismatches == IF check_status
                      THEN status_mismatches_of(linked, issues, tasks_dir, <<>>)
                      ELSE [list |-> <<>>, raised |-> FALSE]
    IN  IF ~loaded.found THEN CacheNotFound
        ELSE IF mismatches.raised THEN AttributeError
        ELSE [unlinked_issues |-> unlinked_issues,
              unlinked_tasks |-> unlinked_tasks,
              status_mismatches |-> mismatches.list,
              summary |-> [unlinked_issues |-> Cardinality(DOMAIN unlinked_issues),
                           unlinked_tasks |-> Len(unlinked_tasks),
                           mismatches |-> Len(mismatches.list),
                           total_issues |-> Cardinality(DOMAIN issues),
                           total_linked |-> Len(linked)]]

(* read_cache.py, lines 96-108 *)
get_unlinked(cache) ==
    LET unlinked == unlinked_issues_of(cache.issues, cache.linked)
    IN  [unlinked |-> unlinked, count |-> Cardinality(DOMAIN unlinked)]

(* read_cache.py, lines 111-140, with --unlinked *)
read_cache_unlinked(d) ==
    LET loaded == load_cache_or_none(d)
    IN  IF ~loaded.found THEN CacheNotFound ELSE get_unlinked(loaded.cache)

(* read_cache.py, lines 31-43 *)
get_summary(cache) ==
    [project |-> Get(cache.project, "identifier", "Unknown"),
     project_name |-> Get(cache.project, "name", "Unknown"),
     project_id |-> Get(cache.project, "id", None),
     workspace |-> Get(cache.project, "workspace", None),
     issues_count |-> Cardinality(DOMAIN cache.issues),
     linked_count |-> Len(cache.linked),
     states_count |-> Cardinality(DOMAIN cache.states),
     last_sync |-> cache.lastSync]

(* read_cache.py, lines 46-59; .lower() of a null state raises. *)
get_issues(cache, state_filter) ==
    LET filtered == IF Truthy(state_filter)
                    THEN {k \in DOMAIN cache.issues :
                             StrLower(Get(cache.issues[k], "state", ""))
                                = StrLower(state_filter)}
                    ELSE DOMAIN cache.issues
    IN  IF Truthy(state_filter)
           /\ \E k \in DOMAIN cache.issues : Get(cache.issues[k], "state", "") = None
        THEN AttributeError
        ELSE [issues |-> [k \in filtered |->
                             [name |-> Get(cache.issues[k], "name", None),
                              state |-> Get(cache.issues[k], "state", None)]],
              count |-> Cardinality(filtered)]

(* read_cache.py, lines 62-72: the record is annotated in memory; the      *)
(* annotated cache is what a save would write.                             *)
get_issue(cache, issue_key) ==
    IF issue_key \notin DOMAIN cache.issues
    THEN [cache |-> cache,
          result |-> [error |-> "Issue " \o issue_key \o " not found in cache"]]
    ELSE LET issue == Put(cache.issues[issue_key], "linked_task",
                          DictGet(cache.linked, issue_key, None))
         IN  [cache |-> [cache EXCEPT !.issues = Put(@, issue_key, issue)],
              result |-> Put(issue, "issue", issue_key)]

(* read_cache.py, lines 75-88 *)
get_linked(cache) ==
    [linked |-> [k \in DictKeys(cache.linked) |->
                    LET issue == Get(cache.issues, k, EmptyDict)
                    IN  [task |-> DictGet(cache.linked, k, None),
                         name |-> Get(issue, "name", None),
                         state |-> Get(issue, "state", None)]],
     count |-> Cardinality(DictKeys(cache.linked))]

(* read_cache.py, lines 91-93 *)
get_states(cache) == [states |-> cache.states]

(* Variant of read_cache_main: the lookup writes its annotated cache back. *)
read_cache_main_saving(d, query, arg) ==
    LET loaded == load_cache_or_none(d)
        cache == loaded.cache
    IN  IF ~loaded.found THEN [disk |-> d, result |-> CacheNotFound]
        ELSE IF query = "issue"
        THEN [disk |-> save_cache(get_issue(cache, arg).cache),
              result |-> get_issue(cache, arg).result]
        ELSE IF query = "issues" THEN [disk |-> d, result |-> get_issues(cache, arg)]
        ELSE IF query = "linked" THEN [disk |-> d, result |-> get_linked(cache)]
        ELSE IF query = "unlinked" THEN [disk |-> d, result |-> get_unlinked(cache)]
        ELSE IF query = "states" THEN [disk |-> d, result |-> get_states(cache)]
        ELSE [disk |-> d, result |-> get_summary(cache)]

(* read_cache.py, lines 111-140: one query per call, nothing is saved. *)
read_cache_main(d, query, arg) ==
    LET loaded == load_cache_or_none(d)
        cache == loaded.cache
    IN  [disk |-> d,
         result |-> IF ~loaded.found THEN CacheNotFound
                    ELSE IF query = "issue" THEN get_issue(cache, arg).result
                    ELSE IF query = "issues" THEN get_issues(cache, arg)
                    ELSE IF query = "linked" THEN get_linked(cache)
                    ELSE IF query = "unlinked" THEN get_unlinked(cache)
                    ELSE IF query = "states" THEN get_states(cache)
                    ELSE get_summary(cache)]

-----------------------------------------------------------------------------
(* Inputs *)

pFull == [id |-> "p1", identifier |-> "CCPRISM", name |-> "Prism", workspace |-> "acme"]

pNoWorkspace == [id |-> "p1", identifier |-> "CCPRISM", name |-> "Prism"]

pNoIdentifier == [id |-> "p1", name |-> "Prism", workspace |-> "acme"]

ProjectPool == {pFull, pNoWorkspace, pNoIdentifier}

sTodo == [id |-> "s1", name |-> "Todo", group |-> "unstarted"]

sProgress == [id |-> "s2", name |-> "In Progress", group |-> "started"]

sReview == [id |-> "s3", name |-> "In Review", group |-> "started"]

sDoing == [id |-> "s4", name |-> "Doing", group |-> "started"]

sMerge == [id |-> "s5", name |-> "READY TO MERGE", group |-> "started"]

StatePool == {sTodo, sProgress, sReview, sDoing, sMerge}

(* The sequences of 1..n distinct elements of S. *)
InjSeqs(S, n) ==
    UNION {{q \in [1..k -> S] : \A i, j \in 1..k : i # j => q[i] # q[j]} : k \in 1..n}

StateLists == InjSeqs(StatePool, MaxStates)

AllStates == <<sTodo, sProgress, sReview, sDoing>>

iA == [id |-> "u1", sequence_id |-> 1, name |-> "Alpha", state |-> Obj([id |-> "s2"]),
       priority |-> Obj([id |-> "high"]), updated_at |-> "2026-01-01"]

(* iA with the same timestamp and other fields *)
iA2 == [id |-> "u1", sequence_id |-> 1, name |-> "Alpha v2", state |-> Scalar("s3"),
        updated_at |-> "2026-01-01"]

(* iA with a later timestamp *)
iA3 == [id |-> "u1", sequence_id |-> 1, name |-> "Alpha", state |-> Obj([id |-> "s2"]),
        priority |-> Scalar("low"), updated_at |-> "2026-02-02"]

iB == [id |-> "u2", sequence_id |-> 2, name |-> "Beta", state |-> Scalar("s9")]

iNoId == [sequence_id |-> 2, name |-> "Beta"]

iNoName == [id |-> "u2", sequence_id |-> 2]

iNoSeq == [id |-> "u2", name |-> "Beta"]

IssueLists ==
    {<<>>, <<iA>>, <<iA2>>, <<iA3, iB>>, <<iA, iA3>>, <<iA, iA2>>, <<iB, iA, iB>>,
     <<iA, iNoId>>, <<iNoName, iA>>, <<iNoSeq>>}

(* A snapshot; each part is <<>> when absent and <<value>> when present. *)
Snapshot(project, states, issues) ==
    LET keys == (IF project # <<>> THEN {"project"} ELSE {})
                \cup (IF states # <<>> THEN {"states"} ELSE {})
                \cup (IF issues # <<>> THEN {"issues"} ELSE {})
    IN  [k \in keys |-> IF k = "project" THEN project[1]
                        ELSE IF k = "states" THEN states[1]
                        ELSE issues[1]]

Option(S) == {<<>>} \cup {<<x>> : x \in S}

(* SpecSync: every project option with every issue list, with and without states. *)
Snapshots ==
    {Snapshot(p, s, i) : p \in Option(ProjectPool), s \in Option({AllStates}),
                         i \in Option(IssueLists)}

(* SpecStates: snapshots that carry only a state list. *)
StateSnapshots == {Snapshot(<<>>, <<l>>, <<>>) : l \in StateLists}

(* Spec: a first sync of the project and a later partial one. *)
LinkSnapshots ==
    {Snapshot(<<pFull>>, <<AllStates>>, << <<iA, iB>> >>),
     Snapshot(<<>>, <<>>, << <<iA3>> >>),
     Snapshot(<<>>, <<>>, <<>>)}

uGood == [id |-> "u3", name |-> "Gamma", state |-> "Todo", state_id |-> "s1",
          priority |-> "none"]

uNoName == [id |-> "u3", name |-> None, state |-> None, state_id |-> None,
            priority |-> "none"]

IssueArgs == {uGood, uNoName}

(* SpecUpsert: --data payloads with fields left out, an empty id, no id. *)
uPartial == [id |-> "u9", name |-> "Delta"]

uStamped == [id |-> "u9", name |-> "Delta", state |-> "Done", priority |-> "high",
             updated_at |-> "2026-03-03"]

uEmptyId == [id |-> "", name |-> "Delta", state |-> "Todo"]

uNoId == [name |-> "Delta", state |-> "Todo"]

UpsertArgs == {uGood, uPartial, uStamped, uNoName, uEmptyId, uNoId}

UpsertSyncKeys == {"CCPRISM-1", "CCPRISM-3"}

KeyArgs == {"CCPRISM-1", "CCPRISM-2", "CCPRISM-3"}

UpsertKeys == {"CCPRISM-3"}

Tasks == {"a.md", "b.md"}

TaskArgs == Tasks \cup {"", None}

(* SpecDiscover: the tasks directory, absent or with a.md and b.md, each *)
(* absent or with one of the texts, listed in either order.              *)
File(name, text) == [name |-> name, text |-> text]

FilesOf(name, texts) == {<<>>} \cup {<<File(name, text)>> : text \in texts}

NoDir == [exists |-> FALSE, files |-> <<>>]

Dir(files) == [exists |-> TRUE, files |-> files]

(* The queries of read_cache.py: the flag given and its argument. *)
Queries ==
    {<<"summary", None>>, <<"issues", None>>, <<"issues", "in progress">>,
     <<"issue", "CCPRISM-1">>, <<"issue", "CCPRISM-9">>, <<"linked", None>>,
     <<"states", None>>}

TaskDirs ==
    {NoDir}
       \cup {Dir(a \o b) : a \in FilesOf("a.md", TaskTexts),
                            b \in FilesOf("b.md", {tPending, tTodo, tPlain})}
       \cup {Dir(<<File("b.md", tPending), File("a.md", tClaimsA)>>)}

-----------------------------------------------------------------------------
(* The entry points as actions.  `last` records the invocation: op, args,  *)
(* result, the file before it (pre), and whether the invocation before it  *)
(* was the same entry point with the same arguments (again).               *)

Invocation(op, args, r) ==
    [op |-> op, args |-> args, result |-> r.result, pre |-> disk,
     again |-> (last.op = op /\ last.args = args)]

Sync(data) ==
    LET r == sync_cache(data, disk, now)
    IN  /\ disk' = r.disk
        /\ last' = Invocation("sync", [data |-> data], r)
        /\ UNCHANGED now

Touch ==
    LET r == touch_cache(disk, now)
    IN  /\ disk' = r.disk
        /\ last' = Invocation("touch", <<>>, r)
        /\ UNCHANGED now

AddIssue(key, issue_data) ==
    LET r == add_issue_main(disk, key, issue_data, now)
    IN  /\ disk' = r.disk
        /\ last' = Invocation("upsert", [key |-> key, data |-> issue_data], r)
        /\ UNCHANGED now

Link(issue, task) ==
    LET r == add_link_main(disk, issue, task, FALSE)
    IN  /\ disk' = r.disk
        /\ last' = Invocation("link", [issue |-> issue, task |-> task], r)
        /\ UNCHANGED now

Unlink(issue) ==
    LET r == add_link_main(disk, issue, None, TRUE)
    IN  /\ disk' = r.disk
        /\ last' = Invocation("unlink", [issue |-> issue], r)
        /\ UNCHANGED now

Discover(tasks_dir, check_status) ==
    LET r == [result |-> discover(disk, tasks_dir, check_status)]
    IN  /\ last' = Invocation("discover",
                              [tasks_dir |-> tasks_dir, check_status |-> check_status], r)
        /\ UNCHANGED <<disk, now>>

ReadUnlinked ==
    LET r == [result |-> read_cache_unlinked(disk)]
    IN  /\ last' = Invocation("unlinked", <<>>, r)
        /\ UNCHANGED <<disk, now>>

Query(query, arg) ==
    LET r == read_cache_main(disk, query, arg)
    IN  /\ disk' = r.disk
        /\ last' = Invocation(query, [arg |-> arg], r)
        /\ UNCHANGED now

(* Time passes between invocations. *)
Tick ==
    /\ now < MaxClock
    /\ now' = now + 1
    /\ UNCHANGED <<disk, last>>

(* Two processes run the scripts at the same time. *)
Procs == {1, 2}

Idle == [phase |-> "idle"]

NoInvocation ==
    [op |-> "none", args |-> <<>>, result |-> <<>>, pre |-> NoFile, again |-> FALSE]

Init ==
    /\ disk = NoFile
    /\ now = 0
    /\ last = NoInvocation
    /\ ops = 0
    /\ procs = [p \in Procs |-> Idle]

(* Every entry point, any number of invocations, one at a time. *)
Next ==
    \/ \E data \in LinkSnapshots : Sync(data) /\ UNCHANGED <<ops, procs>>
    \/ Touch /\ UNCHANGED <<ops, procs>>
    \/ \E key \in UpsertKeys, issue_data \in IssueArgs :
          AddIssue(key, issue_data) /\ UNCHANGED <<ops, procs>>
    \/ \E issue \in KeyArgs, task \in TaskArgs : Link(issue, task) /\ UNCHANGED <<ops, procs>>
    \/ \E issue \in KeyArgs : Unlink(issue) /\ UNCHANGED <<ops, procs>>
    \/ Tick /\ UNCHANGED <<ops, procs>>

Spec == Init /\ [][Next]_vars

(* The Reconciler on its own: up to MaxOps invocations, syncs of any *)
(* snapshot and links of the issues they store.                      *)
SyncLinkKeys == {"CCPRISM-1", "PROJ-1"}

NextSync ==
    \/ /\ ops < MaxOps
       /\ ops' = ops + 1
       /\ UNCHANGED procs
       /\ \E data \in Snapshots : Sync(data)
    \/ /\ ops < MaxOps
       /\ ops' = ops + 1
       /\ UNCHANGED procs
       /\ \E issue \in SyncLinkKeys : Link(issue, "a.md")

SpecSync == Init /\ [][NextSync]_vars

(* The state mapping on its own: any number of syncs of any state list. *)
NextStates ==
    \E data \in StateSnapshots : Sync(data) /\ UNCHANGED <<ops, procs>>

SpecStates == Init /\ [][NextStates]_vars

(* The manual upsert next to the Reconciler, with time passing. *)
NextUpsert ==
    \/ \E key \in UpsertSyncKeys, issue_data \in UpsertArgs :
          AddIssue(key, issue_data) /\ UNCHANGED <<ops, procs>>
    \/ Sync(Snapshot(<<pFull>>, <<AllStates>>, << <<iA, iB>> >>)) /\ UNCHANGED <<ops, procs>>
    \/ Tick /\ UNCHANGED <<ops, procs>>

SpecUpsert == Init /\ [][NextUpsert]_vars

(* The reports next to the operations that fill the cache they read. *)
NextDiscover ==
    \/ Sync(Snapshot(<<pFull>>, <<AllStates>>, << <<iA, iB>> >>)) /\ UNCHANGED <<ops, procs>>
    \/ \E issue_data \in {uGood, uPartial} :
          AddIssue("CCPRISM-3", issue_data) /\ UNCHANGED <<ops, procs>>
    \/ \E issue \in KeyArgs, task \in Tasks : Link(issue, task) /\ UNCHANGED <<ops, procs>>
    \/ \E issue \in KeyArgs : Unlink(issue) /\ UNCHANGED <<ops, procs>>
    \/ \E tasks_dir \in TaskDirs, check_status \in BOOLEAN :
          Discover(tasks_dir, check_status) /\ UNCHANGED <<ops, procs>>
    \/ ReadUnlinked /\ UNCHANGED <<ops, procs>>
    \/ \E q \in Queries : Query(q[1], q[2]) /\ UNCHANGED <<ops, procs>>
    \/ Touch /\ UNCHANGED <<ops, procs>>

SpecDiscover == Init /\ [][NextDiscover]_vars

(* The invocations that race: their entry point and arguments. *)
RaceInvocations ==
    {[op |-> "sync", args |-> [data |-> data]] :
        data \in {Snapshot(<<pFull>>, <<AllStates>>, << <<iA, iB>> >>),
                  Snapshot(<<>>, <<>>, << <<iA3>> >>)}}
       \cup {[op |-> "link", args |-> [issue |-> issue, task |-> task]] :
                 issue \in {"CCPRISM-1", "CCPRISM-2"}, task \in Tasks}
       \cup {[op |-> "unlink", args |-> [issue |-> "CCPRISM-1"]],
             [op |-> "touch", args |-> <<>>],
             [op |-> "upsert", args |-> [key |-> "CCPRISM-3", data |-> uGood]]}

(* What the entry point of `inv` computes from the file d it loaded. *)
RunOn(d, inv, t) ==
    IF inv.op = "sync" THEN sync_cache(inv.args.data, d, t)
    ELSE IF inv.op = "touch" THEN touch_cache(d, t)
    ELSE IF inv.op = "upsert" THEN add_issue_main(d, inv.args.key, inv.args.data, t)
    ELSE IF inv.op = "link" THEN add_link_main(d, inv.args.issue, inv.args.task, FALSE)
    ELSE add_link_main(d, inv.args.issue, None, TRUE)

(* save_cache is reached exactly on the paths that return success. *)
Saved(r) == "success" \in DOMAIN r.result /\ r.result.success

(* Variant of finish: the document is loaded again at the time of the save. *)
finish_serial(d, inv, t) == RunOn(d, inv, t)

(* Variant of finish: the links on file are kept next to the links computed. *)
finish_merge_links(d, inv, t) ==
    LET r == RunOn(inv.loaded, inv, t)
        merged == r.disk.text.linked
                     \o SelectSeq(load_cache(d).linked,
                                  LAMBDA e : ~DictHas(r.disk.text.linked, e[1]))
    IN  [disk |-> IF Saved(r)
                  THEN save_cache([r.disk.text EXCEPT !.linked = merged])
                  ELSE d,
         result |-> r.result]

(* From load_cache to save_cache: the document written is computed from *)
(* the document loaded; the file as it is by then is not read again.     *)
finish(d, inv, t) ==
    LET r == RunOn(inv.loaded, inv, t)
    IN  [disk |-> IF Saved(r) THEN r.disk ELSE d, result |-> r.result]

(* load_cache of an invocation *)
Begin(p, inv) ==
    /\ procs[p].phase # "loaded"
    /\ ops < MaxRaceOps
    /\ ops' = ops + 1
    /\ procs' = [procs EXCEPT ![p] = [phase |-> "loaded", op |-> inv.op,
                                       args |-> inv.args, loaded |-> disk]]
    /\ UNCHANGED <<disk, now, last>>

(* the rest of the invocation, save_cache and the result *)
Finish(p) ==
    /\ procs[p].phase = "loaded"
    /\ LET r == finish(disk, procs[p], now)
       IN  /\ disk' = r.disk
           /\ last' = [op |-> procs[p].op, args |-> procs[p].args, result |-> r.result,
                       pre |-> procs[p].loaded, again |-> FALSE]
           /\ procs' = [procs EXCEPT ![p] = [phase |-> "done", op |-> procs[p].op,
                                              args |-> procs[p].args,
                                              result |-> r.result]]
    /\ UNCHANGED <<now, ops>>

NextRace ==
    \/ \E p \in Procs, inv \in RaceInvocations : Begin(p, inv)
    \/ \E p \in Procs : Finish(p)

SpecRace == Init /\ [][NextRace]_vars

-----------------------------------------------------------------------------
(* Properties.  Cache is the persisted document, Pre the document the last *)
(* invocation loaded.                                                       *)

Cache == load_cache(disk)

Pre == load_cache(last.pre)

Failed == "success" \in DOMAIN last.result /\ ~last.result.success

Succeeded == "success" \in DOMAIN last.result /\ last.result.success

(* C1: in every reachable state the persisted links are injective in both *)
(* directions: no issue key has two entries and no task file is the value *)
(* of two entries.                                                        *)
C1_LinksInjective ==
    \A i, j \in DOMAIN disk.text.linked :
        i # j => /\ disk.text.linked[i][1] # disk.text.linked[j][1]
                 /\ disk.text.linked[i][2] # disk.text.linked[j][2]

(* Two links stand and a link of a cached, unlinked issue to a taken task *)
(* has just been refused.                                                 *)
C1_Witness ==
    /\ last.op = "link"
    /\ Failed
    /\ Len(Cache.linked) = 2
    /\ last.args.issue \in DOMAIN Cache.issues
    /\ last.args.issue \notin DictKeys(Cache.linked)
    /\ last.args.task \in DictValues(Cache.linked)

(* C2: link(I, B) while I is linked to A # B fails, with the conflict     *)
(* message naming A when B is a task file, and leaves the file as it was. *)
C2_NoImplicitOverwrite ==
    (/\ last.op = "link"
     /\ DictHas(Pre.linked, last.args.issue)
     /\ DictGet(Pre.linked, last.args.issue, None) # last.args.task)
    => /\ Failed
       /\ disk = last.pre
       /\ Truthy(last.args.task) =>
              last.result.error =
                  "Issue " \o last.args.issue \o " already linked to "
                  \o DictGet(Pre.linked, last.args.issue, None) \o ". Use --remove first."

(* I is linked to A and link(I, B) with B a free task file was refused. *)
C2_Witness ==
    /\ last.op = "link"
    /\ Failed
    /\ DictHas(Pre.linked, last.args.issue)
    /\ last.args.task \in Tasks \ DictValues(Pre.linked)
    /\ DictGet(Cache.linked, last.args.issue, None) \in Tasks \ {last.args.task}

(* C3: link(I, T) for a cached issue I while T is the task of another     *)
(* issue J fails with a conflict message and leaves the file as it was,   *)
(* wherever the link of J stands among the links.                         *)
C3_TaskConflict ==
    (/\ last.op = "link"
     /\ Truthy(last.args.task)
     /\ last.args.issue \in DOMAIN Pre.issues
     /\ \E i \in DOMAIN Pre.linked :
           Pre.linked[i][2] = last.args.task /\ Pre.linked[i][1] # last.args.issue)
    => /\ Failed
       /\ disk = last.pre
       /\ \/ \E i \in DOMAIN Pre.linked :
                /\ Pre.linked[i][2] = last.args.task
                /\ last.result.error =
                       "Task " \o last.args.task \o " already linked to "
                       \o Pre.linked[i][1] \o "."
          \/ /\ DictHas(Pre.linked, last.args.issue)
             /\ last.result.error =
                    "Issue " \o last.args.issue \o " already linked to "
                    \o DictGet(Pre.linked, last.args.issue, None)
                    \o ". Use --remove first."

(* The link of J to T is the second of two links and link(I, T) for an *)
(* unlinked cached I was refused because of it.                        *)
C3_Witness ==
    /\ last.op = "link"
    /\ Failed
    /\ Len(Pre.linked) = 2
    /\ Pre.linked[2][2] = last.args.task
    /\ Pre.linked[1][2] # last.args.task
    /\ last.args.issue \in DOMAIN Pre.issues
    /\ ~DictHas(Pre.linked, last.args.issue)
    /\ last.result.error =
           "Task " \o last.args.task \o " already linked to " \o Pre.linked[2][1] \o "."

(* C4: link(I, T) for an issue key that is not cached fails, as not found *)
(* when T is a task file, and leaves the file as it was: no link, no      *)
(* issue, and no file when there was none.                                *)
C4_UnknownIssue ==
    (/\ last.op = "link"
     /\ last.args.issue \notin DOMAIN Pre.issues)
    => /\ Failed
       /\ disk = last.pre
       /\ Truthy(last.args.task) =>
              last.result.error =
                  "Issue " \o last.args.issue \o " not found in cache. Run plane-sync first."

(* A link was asked for while there was no cache file, and there is still none. *)
C4_Witness ==
    /\ last.op = "link"
    /\ last.args.task \in Tasks
    /\ ~last.pre.exists
    /\ ~disk.exists
    /\ Failed

(* C5: link(I, T) while I is linked to T succeeds, returns the name of    *)
(* the issue, and leaves the whole document as it was.                    *)
C5_RelinkIsNoOp ==
    (/\ last.op = "link"
     /\ Truthy(last.args.task)
     /\ DictGet(Pre.linked, last.args.issue, None) = last.args.task)
    => /\ Succeeded
       /\ last.result.issue_name = Pre.issues[last.args.issue].name
       /\ disk = last.pre

(* The first of two links was confirmed again. *)
C5_Witness ==
    /\ last.op = "link"
    /\ Succeeded
    /\ Len(Pre.linked) = 2
    /\ Pre.linked[1] = <<last.args.issue, last.args.task>>
    /\ last.result.issue_name = "Alpha"

(* C6: unlink(I) fails and changes nothing when I has no link; otherwise  *)
(* it removes the entry of I alone, returns its task file T, and then I   *)
(* can be linked to any free task and T to any unlinked cached issue.     *)
C6_Unlink ==
    last.op = "unlink" =>
        IF ~DictHas(Pre.linked, last.args.issue)
        THEN /\ Failed
             /\ last.result.error =
                    "Issue " \o last.args.issue \o " is not linked to any task."
             /\ disk = last.pre
        ELSE LET T == DictGet(Pre.linked, last.args.issue, None)
             IN  /\ Succeeded
                 /\ last.result.was_linked_to = T
                 /\ last.result.unlinked = last.args.issue
                 /\ disk.exists
                 /\ Cache.linked
                        = SelectSeq(Pre.linked, LAMBDA e : e # <<last.args.issue, T>>)
                 /\ [Cache EXCEPT !.linked = <<>>] = [Pre EXCEPT !.linked = <<>>]
                 /\ \A T2 \in Tasks \ DictValues(Cache.linked) :
                        add_link(disk, last.args.issue, T2).result.success
                 /\ \A J \in DOMAIN Cache.issues \ DictKeys(Cache.linked) :
                        add_link(disk, J, T).result.success

(* One of two links was removed, the other stands, and a cached issue *)
(* other than I is free to take T.                                    *)
C6_Witness ==
    /\ last.op = "unlink"
    /\ Succeeded
    /\ Len(Pre.linked) = 2
    /\ Len(Cache.linked) = 1
    /\ \E J \in DOMAIN Cache.issues \ DictKeys(Cache.linked) : J # last.args.issue

(* The document without lastSync. *)
Data(cache) ==
    [project |-> cache.project, states |-> cache.states, issues |-> cache.issues,
     linked |-> cache.linked]

(* C7: sync is idempotent on the data: syncing the snapshot that was just *)
(* synced changes nothing of project, states, issues and linked, both     *)
(* when it is applied to the document at hand and when the invocation     *)
(* before was that same sync.                                             *)
C7_SyncIdempotent ==
    last.op = "sync" =>
        /\ Data(load_cache(sync_cache(last.args.data, disk, now).disk)) = Data(Cache)
        /\ last.again => Data(Cache) = Data(Pre)

(* The same snapshot, with a repeated sequence number and three states of *)
(* the started group, was synced twice in a row.                          *)
C7_Witness ==
    /\ last.op = "sync"
    /\ last.again
    /\ Succeeded
    /\ last.args.data = Snapshot(<<pFull>>, <<AllStates>>, << <<iA, iA3>> >>)
    /\ DOMAIN Cache.issues = {"CCPRISM-1"}
    /\ last.result.new = <<>>
    /\ last.result.updated = <<"CCPRISM-1", "CCPRISM-1">>

(* The issues of the last synced snapshot, their keys, and the record that *)
(* stands under the key of issue i when the loop reaches it.               *)
SyncedIssues == Get(last.args.data, "issues", <<>>)

SyncedKey(i) ==
    make_issue_key(Get(Cache.project, "identifier", "PROJ"), SyncedIssues[i].sequence_id)

Earlier(i) == {j \in 1..(i - 1) : SyncedKey(j) = SyncedKey(i)}

KeyAbsentAt(i) == Earlier(i) = {} /\ SyncedKey(i) \notin DOMAIN Pre.issues

StampAt(i) ==
    IF Earlier(i) # {}
    THEN Get(SyncedIssues[CHOOSE j \in Earlier(i) : \A h \in Earlier(i) : h <= j],
             "updated_at", None)
    ELSE Pre.issues[SyncedKey(i)].updated_at

KeysWhere(P(_)) ==
    LET idx == SelectSeq([i \in DOMAIN SyncedIssues |-> i], P)
    IN  [k \in DOMAIN idx |-> SyncedKey(idx[k])]

IsLastOfKey(i) == \A j \in DOMAIN SyncedIssues : SyncedKey(j) = SyncedKey(i) => j <= i

(* C8: a successful sync lists in `new` the keys of the snapshot issues   *)
(* whose key was absent from the cache when they were reached, in         *)
(* `updated` those whose key was present with another updated_at, and the *)
(* others in neither; every key ends up holding the fields of its last    *)
(* snapshot issue whichever the case.                                     *)
C8_DeltaByTimestamp ==
    (last.op = "sync" /\ Succeeded) =>
        /\ last.result.new = KeysWhere(KeyAbsentAt)
        /\ last.result.updated =
               KeysWhere(LAMBDA i : /\ ~KeyAbsentAt(i)
                                    /\ StampAt(i) # Get(SyncedIssues[i], "updated_at", None))
        /\ \A i \in DOMAIN SyncedIssues :
              IsLastOfKey(i) =>
                  /\ SyncedKey(i) \in DOMAIN Cache.issues
                  /\ Cache.issues[SyncedKey(i)].id = SyncedIssues[i].id
                  /\ Cache.issues[SyncedKey(i)].name = SyncedIssues[i].name
                  /\ Cache.issues[SyncedKey(i)].updated_at
                         = Get(SyncedIssues[i], "updated_at", None)
                  /\ Cache.issues[SyncedKey(i)].state_id
                         = IF "state" \notin DOMAIN SyncedIssues[i] THEN None
                           ELSE IF IsDict(SyncedIssues[i].state)
                           THEN SyncedIssues[i].state.dict.id
                           ELSE SyncedIssues[i].state.scalar

(* An issue came again with the same updated_at and another name and     *)
(* state: the new fields are stored and nothing is reported.             *)
C8_Witness ==
    /\ last.op = "sync"
    /\ Succeeded
    /\ SyncedIssues = <<iA2>>
    /\ last.result.new = <<>>
    /\ last.result.updated = <<>>
    /\ SyncedKey(1) \in DOMAIN Pre.issues
    /\ Pre.issues[SyncedKey(1)].name = "Alpha"
    /\ Cache.issues[SyncedKey(1)].name = "Alpha v2"
    /\ Pre.issues[SyncedKey(1)].updated_at = Cache.issues[SyncedKey(1)].updated_at

(* The identifier that is known after the project update, if any. *)
KnownIdentifier ==
    IF "identifier" \in DOMAIN Cache.project /\ Cache.project.identifier # None
    THEN Cache.project.identifier
    ELSE "PROJ"

(* C9: every issue stored by a sync has the key <identifier>-<sequence    *)
(* number> with the project identifier as it stands after the project     *)
(* update, and with the placeholder PROJ when no identifier is known.     *)
C9_KeyFromIdentifier ==
    (last.op = "sync" /\ Succeeded) =>
        /\ \A i \in DOMAIN SyncedIssues :
              (KnownIdentifier \o "-" \o ToString(SyncedIssues[i].sequence_id))
                  \in DOMAIN Cache.issues
        /\ DOMAIN Cache.issues \ DOMAIN Pre.issues \subseteq
              {KnownIdentifier \o "-" \o ToString(SyncedIssues[i].sequence_id) :
                  i \in DOMAIN SyncedIssues}

(* The literal name under which a state of the pool is to be recorded, "" *)
(* for a state that goes to the slot of its group.                        *)
LiteralName(state) ==
    IF state.name = "In Review" THEN "in_review"
    ELSE IF state.name = "READY TO MERGE" THEN "ready_to_merge"
    ELSE ""

SlotOf(state) ==
    IF state.group = "unstarted" THEN "pending"
    ELSE IF state.group = "started" THEN "in_progress"
    ELSE state.group

SyncedStates == Get(last.args.data, "states", <<>>)

(* C10: after a successful sync, in_review and ready_to_merge hold the id *)
(* of the last snapshot state of that normalized name (and are as before  *)
(* when there is none); every other slot is as before when it was filled, *)
(* and else holds the first snapshot state of its group that has no       *)
(* special name, if any.  So Todo, In Progress and In Review, in any      *)
(* order on free slots, give pending=s1, in_progress=s2, in_review=s3.    *)
C10_SpecialStates ==
    (last.op = "sync" /\ Succeeded) =>
        /\ \A n \in {"in_review", "ready_to_merge"} :
              LET at == {i \in DOMAIN SyncedStates : LiteralName(SyncedStates[i]) = n}
              IN  IF at # {}
                  THEN /\ n \in DOMAIN Cache.states
                       /\ Cache.states[n]
                              = SyncedStates[CHOOSE i \in at : \A h \in at : h <= i].id
                  ELSE /\ n \in DOMAIN Cache.states <=> n \in DOMAIN Pre.states
                       /\ n \in DOMAIN Pre.states => Cache.states[n] = Pre.states[n]
        /\ \A c \in {"backlog", "pending", "in_progress", "completed", "cancelled"} :
              LET at == {i \in DOMAIN SyncedStates :
                            /\ LiteralName(SyncedStates[i]) = ""
                            /\ SlotOf(SyncedStates[i]) = c}
              IN  IF c \in DOMAIN Pre.states
                  THEN c \in DOMAIN Cache.states /\ Cache.states[c] = Pre.states[c]
                  ELSE IF at # {}
                  THEN /\ c \in DOMAIN Cache.states
                       /\ Cache.states[c]
                              = SyncedStates[CHOOSE i \in at : \A h \in at : i <= h].id
                  ELSE c \notin DOMAIN Cache.states
        /\ DOMAIN Cache.states \subseteq
              {"backlog", "pending", "in_progress", "completed", "cancelled",
               "in_review", "ready_to_merge"}
        /\ (/\ Len(SyncedStates) = 3
            /\ {SyncedStates[i] : i \in 1..3} = {sTodo, sProgress, sReview}
            /\ DOMAIN Pre.states \cap {"pending", "in_progress", "in_review"} = {})
           => /\ Cache.states["pending"] = "s1"
              /\ Cache.states["in_progress"] = "s2"
              /\ Cache.states["in_review"] = "s3"

(* In Review came first, before In Progress and Todo, on an empty cache. *)
C10_Witness ==
    /\ last.op = "sync"
    /\ Succeeded
    /\ SyncedStates = <<sReview, sProgress, sTodo>>
    /\ ~last.pre.exists
    /\ Cache.states = [pending |-> "s1", in_progress |-> "s2", in_review |-> "s3"]

SyncedKeys == {SyncedKey(i) : i \in DOMAIN SyncedIssues}

(* C11: no operation removes an issue: after any invocation every issue   *)
(* key cached before it is still cached, and after a sync an issue that    *)
(* the snapshot does not carry has the fields it had before; touch, link   *)
(* and unlink leave the issue records as they were.                        *)
C11_IssuesNeverRemoved ==
    /\ DOMAIN Pre.issues \subseteq DOMAIN Cache.issues
    /\ (last.op = "sync" /\ Succeeded)
          => \A k \in DOMAIN Pre.issues \ SyncedKeys : Cache.issues[k] = Pre.issues[k]
    /\ (last.op = "sync" /\ ~Succeeded) => Cache.issues = Pre.issues
    /\ last.op \in {"touch", "link", "unlink"} => Cache.issues = Pre.issues

(* A sync of a snapshot with one issue, on a cache that holds a second,    *)
(* linked issue the snapshot does not carry.                               *)
C11_Witness ==
    /\ last.op = "sync"
    /\ Succeeded
    /\ SyncedIssues = <<iA3>>
    /\ "CCPRISM-2" \in DOMAIN Pre.issues
    /\ DictHas(Pre.linked, "CCPRISM-2")
    /\ "CCPRISM-2" \in DOMAIN Cache.issues
    /\ Cache.issues["CCPRISM-1"] # Pre.issues["CCPRISM-1"]

(* The clock value a stored timestamp was taken at. *)
ParseTime(stamp) == CHOOSE t \in 0..MaxClock : UtcNow(t) = stamp

(* C12: every successful sync stores the time of the call as lastSync,     *)
(* also for a snapshot without project, states and issues; the stored      *)
(* value is never null and never older than the lastSync before the call.  *)
C12_LastSyncRefreshed ==
    [][(/\ now' = now
        /\ last'.op = "sync"
        /\ "success" \in DOMAIN last'.result
        /\ last'.result.success)
          => /\ load_cache(disk').lastSync = UtcNow(now)
             /\ load_cache(disk').lastSync # None
             /\ load_cache(disk).lastSync # None
                   => ParseTime(load_cache(disk').lastSync)
                         >= ParseTime(load_cache(disk).lastSync)]_vars

(* An empty snapshot was synced one tick after the sync before it. *)
C12_Witness ==
    /\ last.op = "sync"
    /\ Succeeded
    /\ last.args.data = EmptyDict
    /\ DOMAIN Pre.issues # {}
    /\ Pre.lastSync = UtcNow(0)
    /\ Cache.lastSync = UtcNow(1)

(* C13: touch changes only lastSync: project, states, issues and linked    *)
(* are after a touch what they were before it, whatever the cache holds,   *)
(* and lastSync is a timestamp.                                            *)
C13_TouchFrame ==
    last.op = "touch"
       => /\ Succeeded
          /\ Data(Cache) = Data(Pre)
          /\ Cache.lastSync # None

(* A touch of a cache with project, states, issues and a link, one tick *)
(* after its last sync.                                                  *)
C13_Witness ==
    /\ last.op = "touch"
    /\ DOMAIN Pre.project # {}
    /\ DOMAIN Pre.states # {}
    /\ DOMAIN Pre.issues # {}
    /\ Pre.linked # <<>>
    /\ Pre.lastSync = UtcNow(0)
    /\ Cache.lastSync = UtcNow(1)

Malformed(issue) == {"id", "name", "sequence_id"} \ DOMAIN issue # {}

(* C14: a sync of a snapshot with an issue entry that lacks its id, its   *)
(* name or its sequence number hands a failure result to the caller: the   *)
(* result has success false and an error.                                  *)
C14_MalformedSyncFails ==
    (/\ last.op = "sync"
     /\ \E i \in DOMAIN SyncedIssues : Malformed(SyncedIssues[i]))
       => /\ Failed
          /\ "error" \in DOMAIN last.result

UpsertKey == last.args.key

UpsertData == last.args.data

Blank(f) == f \notin DOMAIN UpsertData \/ UpsertData[f] \in {None, ""}

GivenOr(f, default) == IF f \in DOMAIN UpsertData THEN UpsertData[f] ELSE default

(* C15: an upsert whose id or name is missing or empty returns a failure   *)
(* result and leaves the cache as it was; any other upsert succeeds,       *)
(* stores under the key a record made of the given fields alone (state and *)
(* state_id null and priority "none" when left out, updated_at the given   *)
(* value or a time up to the call), leaves every other key alone, and      *)
(* answers "added" exactly when the key was absent before and "updated"    *)
(* exactly when it was present.                                            *)
C15_Upsert ==
    last.op = "upsert"
       => IF Blank("id") \/ Blank("name")
          THEN /\ Failed
               /\ "error" \in DOMAIN last.result
               /\ disk = last.pre
          ELSE /\ Succeeded
               /\ last.result.action \in {"added", "updated"}
               /\ last.result.action = "added" <=> UpsertKey \notin DOMAIN Pre.issues
               /\ last.result.action = "updated" <=> UpsertKey \in DOMAIN Pre.issues
               /\ DOMAIN Cache.issues = DOMAIN Pre.issues \cup {UpsertKey}
               /\ \A k \in DOMAIN Pre.issues \ {UpsertKey} :
                      Cache.issues[k] = Pre.issues[k]
               /\ [Cache EXCEPT !.issues = Pre.issues] = Pre
               /\ \E t \in 0..now :
                      Cache.issues[UpsertKey]
                         = [id |-> UpsertData.id,
                            name |-> UpsertData.name,
                            state |-> GivenOr("state", None),
                            state_id |-> GivenOr("state_id", None),
                            priority |-> GivenOr("priority", "none"),
                            updated_at |-> GivenOr("updated_at", UtcNow(t))]

(* A synced record with state and priority was replaced by an upsert that *)
(* gives id and name only.                                                 *)
C15_Witness ==
    /\ last.op = "upsert"
    /\ Succeeded
    /\ last.result.action = "updated"
    /\ UpsertData = uPartial
    /\ UpsertKey = "CCPRISM-1"
    /\ Pre.issues["CCPRISM-1"].state = "In Progress"
    /\ Cache.issues["CCPRISM-1"].state = None

Report == last.result

UnlinkedKeys == {k \in DOMAIN Cache.issues : ~DictHas(Cache.linked, k)}

Projected(k) == [name |-> Cache.issues[k].name, state |-> Cache.issues[k].state]

GivenDir == last.args.tasks_dir

(* C16: in every reachable state of the cache, the document not yet        *)
(* written included, discover's unlinked_issues and the unlinked listing   *)
(* of read_cache hold exactly the cached issue keys that are not link      *)
(* keys, each with its name and state, and the counts are the size of that *)
(* set; with one unlinked issue and no task files discover reports that    *)
(* one issue, no unlinked task and the count 1.                            *)
C16_UnlinkedIssues ==
    /\ last.op = "unlinked"
          => /\ DOMAIN Report = {"unlinked", "count"}
             /\ DOMAIN Report.unlinked = UnlinkedKeys
             /\ \A k \in UnlinkedKeys : Report.unlinked[k] = Projected(k)
             /\ Report.count = Cardinality(UnlinkedKeys)
    /\ last.op = "discover"
          => /\ "unlinked_issues" \in DOMAIN Report
             /\ DOMAIN Report.unlinked_issues = UnlinkedKeys
             /\ \A k \in UnlinkedKeys : Report.unlinked_issues[k] = Projected(k)
             /\ Report.summary.unlinked_issues = Cardinality(UnlinkedKeys)
             /\ (Cardinality(UnlinkedKeys) = 1 /\ get_task_files(GivenDir) = <<>>)
                   => /\ Report.unlinked_tasks = <<>>
                      /\ Report.summary.unlinked_issues = 1

HasReport == last.op = "discover" /\ "unlinked_tasks" \in DOMAIN Report

GivenFiles == get_task_files(GivenDir)

LinkedTasks == DictValues(Cache.linked)

ReportedFiles == {Report.unlinked_tasks[i].file : i \in DOMAIN Report.unlinked_tasks}

(* C17: whenever discover hands out a report, the files named in           *)
(* unlinked_tasks are exactly the task files whose name is not a value of  *)
(* the links, whatever their frontmatter is.                               *)
C17_UnlinkedTasks ==
    HasReport
       => ReportedFiles
             = {GivenFiles[i].name : i \in {j \in DOMAIN GivenFiles :
                                               GivenFiles[j].name \notin LinkedTasks}}

(* C18: whenever discover hands out a report, every task file that is not *)
(* a value of the links and has no frontmatter has a bare entry in         *)
(* unlinked_tasks: its file name and status, no claimed issue.             *)
C18_BareEntry ==
    HasReport
       => \A i \in DOMAIN GivenFiles :
             (/\ GivenFiles[i].name \notin LinkedTasks
              /\ ~parse_task_frontmatter(GivenFiles[i].text).matched)
                => \E e \in DOMAIN Report.unlinked_tasks :
                      /\ Report.unlinked_tasks[e].file = GivenFiles[i].name
                      /\ DOMAIN Report.unlinked_tasks[e] = {"file", "status"}

FieldsOf(name) ==
    LET f == CHOOSE g \in {GivenFiles[i] : i \in DOMAIN GivenFiles} : g.name = name
    IN  parse_task_frontmatter(f.text).fields

Declared(name) == Get(FieldsOf(name), "plane_issue", None)

ExpectedState(status) ==
    LET s == StrLower(status)
    IN  IF s = "backlog" THEN "Backlog"
        ELSE IF s = "pending" THEN "Todo"
        ELSE IF s \in {"in_progress", "in-progress"} THEN "In Progress"
        ELSE IF s = "completed" THEN "Done"
        ELSE IF s = "cancelled" THEN "Cancelled"
        ELSE status

LinkedFile(i) == FilesNamed(GivenDir, Cache.linked[i][2])

TaskStatus(i) == Get(parse_task_frontmatter(LinkedFile(i)[1].text).fields, "status", "")

Mismatch(i) ==
    /\ LinkedFile(i) # <<>>
    /\ FrontmatterTruthy(parse_task_frontmatter(LinkedFile(i)[1].text))
    /\ StrLower(ExpectedState(TaskStatus(i)))
          # StrLower(Cache.issues[Cache.linked[i][1]].state)

(* C20: on an existing cache, discover with the status check reports, in   *)
(* the order of the links, one mismatch for each link whose file exists    *)
(* with frontmatter and whose expected state name, the status mapped by    *)
(* the table, differs from the issue's stored state without regard to      *)
(* case, and nothing for the other links; without the status check the     *)
(* list is empty and the count 0.                                          *)
C20_StatusMismatches ==
    (last.op = "discover" /\ disk.exists)
       => /\ "status_mismatches" \in DOMAIN Report
          /\ Report.summary.mismatches = Len(Report.status_mismatches)
          /\ IF last.args.check_status
             THEN LET at == SelectSeq([i \in DOMAIN Cache.linked |-> i], Mismatch)
                  IN  /\ Len(Report.status_mismatches) = Len(at)
                      /\ \A k \in DOMAIN at :
                            Report.status_mismatches[k]
                               = [issue |-> Cache.linked[at[k]][1],
                                  task |-> Cache.linked[at[k]][2],
                                  task_status |-> TaskStatus(at[k]),
                                  plane_state |-> Cache.issues[Cache.linked[at[k]][1]].state,
                                  expected_state |-> ExpectedState(TaskStatus(at[k]))]
             ELSE Report.status_mismatches = <<>>

ReadOps == {"summary", "issues", "issue", "linked", "unlinked", "states", "discover"}

(* What the read `inv` returns on the file d. *)
ReadOn(d, inv) ==
    IF inv.op = "discover"
    THEN discover(d, inv.args.tasks_dir, inv.args.check_status)
    ELSE IF inv.op = "unlinked" THEN read_cache_unlinked(d)
    ELSE read_cache_main(d, inv.op, inv.args.arg).result

(* C21: no read changes the store: a query or a discover call leaves the  *)
(* persisted document as it was, and a read that follows another read      *)
(* returns what it returns on the document before the earlier read.        *)
C21_ReadsDoNotWrite ==
    [][last'.op \in ReadOps
          => /\ disk' = disk
             /\ last.op \in ReadOps => last'.result = ReadOn(last.pre, last')]_vars

(* The lookup of a linked issue returned its record with the task file; *)
(* the record on file has no such field.                                *)
C21_Witness ==
    /\ last.op = "issue"
    /\ last.args.arg = "CCPRISM-1"
    /\ "linked_task" \in DOMAIN last.result
    /\ last.result.linked_task = "a.md"
    /\ disk = last.pre
    /\ "linked_task" \notin DOMAIN Cache.issues["CCPRISM-1"]

(* C22: every invocation of an entry point hands out a result with a       *)
(* boolean success indicator, and a result with success false carries an   *)
(* error message.                                                          *)
C22_ResultWithSuccess ==
    last.op # "none"
       => /\ "success" \in DOMAIN last.result
          /\ last.result.success \in BOOLEAN
          /\ ~last.result.success => "error" \in DOMAIN last.result

SkeletonFile == [exists |-> TRUE, text |-> EmptyCache]

(* C27: an operation invoked while no cache file exists behaves as on the *)
(* empty skeleton: sync and upsert succeed and create the document, link   *)
(* and unlink fail and create nothing, and discover and the queries return *)
(* what they return on a file holding the skeleton.                        *)
C27_MissingIsSkeleton ==
    (last.op # "none" /\ ~last.pre.exists)
       => /\ last.op \in {"sync", "touch", "upsert"} => Succeeded /\ disk.exists
          /\ last.op = "sync" => disk = sync_cache(last.args.data, SkeletonFile, now).disk
          /\ last.op \in {"link", "unlink"} => Failed /\ ~disk.exists
          /\ last.op \in ReadOps => last.result = ReadOn(SkeletonFile, last)

(* C29: every key of the links is the key of a cached issue, in every      *)
(* state reached by sync, touch, upsert, link and unlink; so the linked    *)
(* listing joins every link to the name and state of its issue, and in     *)
(* discover's summary unlinked_issues + total_linked = total_issues.       *)
C29_LinksReferToIssues ==
    /\ DictKeys(Cache.linked) \subseteq DOMAIN Cache.issues
    /\ (last.op = "linked" /\ "linked" \in DOMAIN Report)
          => /\ DOMAIN Report.linked = DictKeys(Cache.linked)
             /\ Report.count = Len(Cache.linked)
             /\ \A k \in DOMAIN Report.linked :
                   /\ k \in DOMAIN Cache.issues
                   /\ Report.linked[k]
                         = [task |-> DictGet(Cache.linked, k, None),
                            name |-> Cache.issues[k].name,
                            state |-> Cache.issues[k].state]
    /\ HasReport
          => Report.summary.unlinked_issues + Report.summary.total_linked
                = Report.summary.total_issues

(* discover on a cache of three issues, two of them linked. *)
C29_Witness ==
    /\ HasReport
    /\ Report.summary.total_issues = 3
    /\ Report.summary.total_linked = 2
    /\ Report.summary.unlinked_issues = 1
    /\ Cache.lastSync # None

(* C30: sync, touch and upsert leave the links as they were, also the link *)
(* of an issue the sync overwrites or omits; link and unlink leave         *)
(* project, states, issues and lastSync as they were.                      *)
C30_DisjointWrites ==
    /\ last.op \in {"sync", "touch", "upsert"} => Cache.linked = Pre.linked
    /\ last.op \in {"link", "unlink"}
          => /\ Cache.project = Pre.project
             /\ Cache.states = Pre.states
             /\ Cache.issues = Pre.issues
             /\ Cache.lastSync = Pre.lastSync

(* A sync overwrote one linked issue and omitted the other; both links *)
(* stand.                                                               *)
C30_Witness ==
    /\ last.op = "sync"
    /\ Succeeded
    /\ SyncedIssues = <<iA3>>
    /\ DictKeys(Pre.linked) = {"CCPRISM-1", "CCPRISM-2"}
    /\ Cache.issues["CCPRISM-1"] # Pre.issues["CCPRISM-1"]
    /\ Cache.linked = Pre.linked

CanonicalSlots == {"backlog", "pending", "in_progress", "completed", "cancelled"}

(* The position in the state list of the first state that is not special *)
(* and whose group maps to slot c; 0 when there is none.                  *)
FirstOfSlot(list, c) ==
    LET at == {i \in DOMAIN list : LiteralName(list[i]) = "" /\ SlotOf(list[i]) = c}
    IN  IF at = {} THEN 0 ELSE CHOOSE i \in at : \A h \in at : i <= h

(* C24: the canonical slots are first-seen-wins: a step never changes a   *)
(* slot that holds a state id, so no later state of the group takes it,    *)
(* in the same snapshot or in a later sync; a slot that was empty is       *)
(* filled by a sync only, with the id of the first state of the snapshot   *)
(* that is not special and belongs to the slot's group.                    *)
C24_FirstSeenWins ==
    [][\A c \in CanonicalSlots :
          LET before == load_cache(disk).states
              after == load_cache(disk').states
          IN  IF c \in DOMAIN before
              THEN c \in DOMAIN after /\ after[c] = before[c]
              ELSE c \in DOMAIN after
                      => /\ last'.op = "sync"
                         /\ FirstOfSlot(Get(last'.args.data, "states", <<>>), c) # 0
                         /\ after[c]
                               = last'.args.data.states[
                                    FirstOfSlot(last'.args.data.states, c)].id]_vars

(* A snapshot that lists Doing before In Progress was synced to a cache *)
(* whose in_progress slot held In Progress; the slot did not move.       *)
C24_Witness ==
    /\ last.op = "sync"
    /\ Succeeded
    /\ Len(SyncedStates) >= 2
    /\ SyncedStates[1] = sDoing
    /\ SyncedStates[2] = sProgress
    /\ "in_progress" \in DOMAIN Pre.states
    /\ Pre.states["in_progress"] = "s2"
    /\ Cache.states["in_progress"] = "s2"

BadEntries == {i \in DOMAIN SyncedIssues : Malformed(SyncedIssues[i])}

(* C25: a sync of a snapshot with a malformed issue entry, wherever the   *)
(* entry stands in the list, leaves the persisted document as it was:     *)
(* neither the project, nor the states, nor the issues before the bad     *)
(* entry, nor a new lastSync are written, and no file is created.         *)
C25_MalformedSyncAborts ==
    (last.op = "sync" /\ BadEntries # {})
       => /\ disk = last.pre
          /\ ~Succeeded

(* The bad entry came second, after a valid issue the cache did not hold, *)
(* in a snapshot with another project and a state list.                    *)
C25_Witness ==
    /\ last.op = "sync"
    /\ BadEntries = {2}
    /\ last.pre.exists
    /\ DOMAIN Pre.issues = {}
    /\ DOMAIN Pre.states = {}
    /\ "project" \in DOMAIN last.args.data
    /\ last.args.data.project # Pre.project
    /\ "states" \in DOMAIN last.args.data
    /\ disk = last.pre

(* The state reference of a snapshot issue: the id of a state object, or *)
(* the scalar.                                                            *)
StateRef(issue) ==
    IF "state" \notin DOMAIN issue THEN None
    ELSE IF "dict" \in DOMAIN issue.state
    THEN (IF "id" \in DOMAIN issue.state.dict THEN issue.state.dict.id ELSE None)
    ELSE issue.state.scalar

StatesWithId(ref) == {j \in DOMAIN SyncedStates : SyncedStates[j].id = ref}

(* C26: after a successful sync the state name stored for a snapshot      *)
(* issue is the name of the state of the same snapshot's list whose id is  *)
(* the issue's state reference; it is "Unknown" when the snapshot has no   *)
(* state list, whatever name the cache held for the issue, and when the    *)
(* list has no state of that id.                                           *)
C26_StateName ==
    (last.op = "sync" /\ Succeeded)
       => \A i \in DOMAIN SyncedIssues :
             IsLastOfKey(i)
                => LET stored == Cache.issues[SyncedKey(i)]
                       with == StatesWithId(StateRef(SyncedIssues[i]))
                   IN  /\ stored.state_id = StateRef(SyncedIssues[i])
                       /\ IF with = {} THEN stored.state = "Unknown"
                          ELSE \E j \in with : stored.state = SyncedStates[j].name

(* An issue the cache held as In Progress was synced again by a snapshot *)
(* without a state list, and is Unknown now.                              *)
C26_Witness ==
    /\ last.op = "sync"
    /\ Succeeded
    /\ "states" \notin DOMAIN last.args.data
    /\ SyncedIssues = <<iA>>
    /\ "CCPRISM-1" \in DOMAIN Pre.issues
    /\ Pre.issues["CCPRISM-1"].state = "In Progress"
    /\ Cache.issues["CCPRISM-1"].state = "Unknown"

Done(p) == procs[p].phase = "done"

Reported(p, op) ==
    /\ Done(p)
    /\ procs[p].op = op
    /\ "success" \in DOMAIN procs[p].result
    /\ procs[p].result.success

(* C23: the last writer wins on the whole document: a successful          *)
(* invocation writes the document it computes from the document it loaded, *)
(* so whatever another invocation saved between its load and its save is   *)
(* gone although that invocation reported success.                         *)
C23_LastWriterWins ==
    [][(\E p \in Procs : procs[p].phase = "loaded" /\ procs'[p].phase = "done"
                         /\ Saved(procs'[p]))
          => \E p \in Procs :
                /\ procs[p].phase = "loaded"
                /\ procs'[p].phase = "done"
                /\ disk' = RunOn(procs[p].loaded, procs[p], now).disk]_vars

(* A link and a sync loaded the same document; the link saved first, the *)
(* sync last: both reported success, the link reported as created is not  *)
(* on file.                                                               *)
C23_Witness ==
    /\ Reported(1, "link")
    /\ Reported(2, "sync")
    /\ procs[1].args.issue = "CCPRISM-1"
    /\ last.op = "sync"
    /\ Cache.linked = <<>>
    /\ "CCPRISM-1" \in DOMAIN Cache.issues

LinksOf(task) == {i \in DOMAIN Cache.linked : Cache.linked[i][2] = task}

KeysOf(issue) == {i \in DOMAIN Cache.linked : Cache.linked[i][1] = issue}

(* C28: with the load and the save of the invocations interleaved in any *)
(* order, every document on file has each task file linked to at most one *)
(* issue key and each issue key linked at most once.                      *)
C28_InjectiveWhenInterleaved ==
    /\ \A task \in DictValues(Cache.linked) : Cardinality(LinksOf(task)) = 1
    /\ \A issue \in DictKeys(Cache.linked) : Cardinality(KeysOf(issue)) = 1

(* Two invocations linked different issues to the same task file from the *)
(* same loaded document; both reported success and one link is on file.    *)
C28_Witness ==
    /\ Reported(1, "link")
    /\ Reported(2, "link")
    /\ procs[1].args.task = procs[2].args.task
    /\ procs[1].args.issue # procs[2].args.issue
    /\ Len(Cache.linked) = 1

=============================================================================
